---- MODULE Spec2Model ----
(***************************************************************************)
(* The icon build script of react-icons, in its two copies:                *)
(*   "root"  scripts/build.js of the repository root (src/unnamed/part_000)*)
(*   "pkg"   packages/react-icons/scripts/build.js                         *)
(* main() runs dirInit, writeLicense, writeIconsManifest, (pkg only)       *)
(* writeIndexFile and then writeIconModule for every icon set.  A state is  *)
(* main() suspended on one awaited call; a step is that call settling and  *)
(* the synchronous code after it running up to the next awaited call.      *)
(***************************************************************************)
EXTENDS Naturals, Sequences, FiniteSets, TLC

VARIABLES
    variant,    \* which copy of build.js runs: "root" or "pkg"
    icons,      \* require("../src/icons").icons: the icon set descriptors
    srcTree,    \* the SVG source files each glob pattern matches, once it was globbed
    dirs,       \* the directories that exist under the output root
    fs,         \* the generated files: path -> sequence of written chunks
    pc,         \* the function of main() being executed
    at,         \* the position of main: k the index of the awaited call of the prelude,
                \* icon the number of icon sets writeIconModule was called for, file the
                \* index of the file its loop is at
    awaited,    \* the call main() is suspended on, or NoOp
    detached,   \* calls in flight that nothing awaits
    files,      \* writeIconModule: the result of getIconFiles(icon)
    exists,     \* writeIconModule: the Set `exists`
    svgStr,     \* writeIconModule: the SVG document just read
    iconData,   \* writeIconModule: the result of convertIconData(svgStr)
    stdout,     \* what console.log has printed in this run
    stderr,     \* what console.error / the runtime has printed in this run
    exitCode,   \* << status >> once the process of this run has ended, Running before
    raised,     \* every error a call of this run settled with
    failed,     \* those of them that no handler swallowed
    late,       \* TRUE once a call was issued in this run after one had failed
    run,        \* the number of the current run of the build
    snap        \* the generated files as the previous run left them, when it printed "done"

vars == << variant, icons, srcTree, dirs, fs, pc, at, awaited, detached, files,
           exists, svgStr, iconData, stdout, stderr, exitCode, raised, failed, late, run, snap >>

-----------------------------------------------------------------------------
(* Bounds of the model. *)

MaxKids == 2        \* children of one SVG element
MaxFiles == 2       \* files one glob pattern discovers
MaxRuns == 2        \* successive runs of the build over the same output directory

-----------------------------------------------------------------------------
(* SVG documents, as cheerio.load(svg, { xmlMode: true }) parses them.      *)
(* A node has a type, a name (tagName; "" for text and comments, which have *)
(* none), attribs in source order and children in document order.           *)

Attr(n) == [name |-> n, value |-> "v-" \o n]

Elem(n, as, cs) == [type |-> "tag", name |-> n, attribs |-> as, children |-> cs]
TextNode == [type |-> "text", name |-> "", attribs |-> << >>, children |-> << >>]
CommentNode == [type |-> "comment", name |-> "", attribs |-> << >>, children |-> << >>]

SeqsUpTo(S, n) == UNION { [1..k -> S] : k \in 0..n }

PathElem == Elem("path", << Attr("d"), Attr("fill-opacity"), Attr("class") >>, << >>)
RectElem == Elem("rect", << Attr("width"), Attr("height"), Attr("class") >>, << >>)
StyleElem == Elem("style", << >>, << TextNode >>)

GrandChildren == { TextNode, PathElem }

Children ==
    { TextNode, CommentNode, StyleElem, RectElem }
    \cup { Elem("g", << Attr("stroke-width") >>, cs) : cs \in SeqsUpTo(GrandChildren, MaxKids) }
    \cup { Elem("svg", << Attr("xmlns"), Attr("width"), Attr("class"), Attr("x") >>, cs) :
             cs \in { << >>, << RectElem >> } }

RootAttribs ==
    { << >>,
      << Attr("xmlns"), Attr("width"), Attr("height"), Attr("class") >>,
      << Attr("viewBox"), Attr("fill-opacity"), Attr("fillOpacity") >>,
      << Attr("Width"), Attr("viewBox") >> }

SvgDocs == { Elem("svg", as, cs) : as \in RootAttribs, cs \in SeqsUpTo(Children, MaxKids) }

Undefined == [undefined |-> TRUE]

-----------------------------------------------------------------------------
(* convertIconData *)

\* camelcase(name) of the camelcase package, on the attribute names of the model:
\* separators are removed and the next letter upper-cased, the first letter is
\* lower-cased, an inner capital is kept.
camelcase(name) ==
    CASE name = "fill-opacity" -> "fillOpacity"
      [] name = "stroke-width" -> "strokeWidth"
      [] name = "Width" -> "width"
      [] OTHER -> name

\* obj[key] = value on a JavaScript object: a new key goes last, an existing key
\* keeps its place and takes the new value.
SetKey(obj, key, value) ==
    IF \E i \in 1..Len(obj) : obj[i].key = key
    THEN [i \in 1..Len(obj) |->
            IF obj[i].key = key THEN [key |-> key, value |-> value] ELSE obj[i]]
    ELSE Append(obj, [key |-> key, value |-> value])

RECURSIVE Reduce(_, _)
Reduce(obj, names) ==
    IF names = << >> THEN obj
    ELSE Reduce(SetKey(obj, camelcase(Head(names).name), Head(names).value), Tail(names))

\* a filter that forgets "class"
RemovedKeepsClass(tagName) ==
    IF tagName = "svg" THEN { "xmlns", "width", "height" } ELSE {}

\* the names the filter of attrConverter rejects
Removed(tagName) ==
    { "class" } \cup (IF tagName = "svg" THEN { "xmlns", "width", "height" } ELSE {})

attrConverter(attribs, tagName) ==
    Reduce(<< >>, SelectSeq(attribs, LAMBDA a : a.name \notin Removed(tagName)))

\* .filter((_, e) => e.tagName && !["style"].includes(e.tagName))
Qualifies(e) == e.name # "" /\ e.name # "style"

\* a child field built for every element
HasChildrenAlways(e) == TRUE

\* e.children && e.children.length
HasChildren(e) == Len(e.children) > 0

\* A node whose `child` is undefined is the record without a child field: that is
\* what JSON.stringify writes into the generated row.
RECURSIVE elementToTree(_)
elementToTree(element) ==
    LET kept == SelectSeq(element, Qualifies)
        node(e) ==
            IF HasChildren(e)
            THEN [tag |-> e.name, attr |-> attrConverter(e.attribs, e.name),
                  child |-> elementToTree(e.children)]
            ELSE [tag |-> e.name, attr |-> attrConverter(e.attribs, e.name)]
    IN  [i \in 1..Len(kept) |-> node(kept[i])]

\* cheerio.load(svg, { xmlMode: true })("svg"): every svg element of the
\* document, in document order.
RECURSIVE SelectSvg(_)
SelectSvg(nodes) ==
    IF nodes = << >> THEN << >>
    ELSE LET e == Head(nodes)
         IN  (IF e.name = "svg" THEN << e >> ELSE << >>)
             \o SelectSvg(e.children) \o SelectSvg(Tail(nodes))

convertIconData(svg) ==
    LET tree == elementToTree(SelectSvg(<< svg >>))
    IN  tree[1]

-----------------------------------------------------------------------------
(* Paths.  Everything is relative to rootDir. *)

resolve(dir, name) == IF dir = "." THEN name ELSE dir \o "/" \o name

\* root: DIST = path.resolve(rootDir, "."); pkg: DIST = path.resolve(rootDir, "lib")
DIST(v) == IF v = "root" THEN "." ELSE "lib"
\* root: LIB = path.resolve(rootDir, "./lib"); pkg writes the manifest under DIST
LIB(v) == "lib"

-----------------------------------------------------------------------------
(* The icon sets and the source files. *)

\* What a glob pattern can match, in the order glob returns it (sorted).
Candidates(pattern) ==
    CASE pattern = "fa/**" -> << "a/arrow-left.svg", "b/arrow-left.svg", "FaHome", "home.svg" >>
      [] pattern = "md/*" -> << "md/fa.svg", "md/home.svg" >>

Patterns == { "fa/**", "md/*" }

Range(s) == { s[i] : i \in 1..Len(s) }

\* The source files are the same in every run.  Which of the candidates exist
\* is fixed when a pattern is first globbed; until then it is Unknown.
Unknown == { "?" }

SourceTrees(pattern) ==
    { t \in SUBSET Range(Candidates(pattern)) : Cardinality(t) <= MaxFiles }

IconConfigs ==
    { << [id |-> "fa", files |-> "fa/**", formatter |-> "prefix"],
         [id |-> "md", files |-> "md/*", formatter |-> "strip"] >>,
      << [id |-> "fa", files |-> "fa/**", formatter |-> "strip"],
         [id |-> "md", files |-> "md/*", formatter |-> "none"] >> }

\* an icon set's formatter: "prefix" is name => "Fa" + name, "strip" is
\* name => name.replace(/^Fa/, ""); "none" is a descriptor without formatter.
formatter(kind, pascalName) ==
    CASE kind = "prefix" -> "Fa" \o pascalName
      [] kind = "strip" ->
            (CASE pascalName = "Fa" -> ""
               [] pascalName = "FaHome" -> "Home"
               [] OTHER -> pascalName)

\* The content of each source file.
SvgOf(file) ==
    CASE file = "a/arrow-left.svg" ->
            Elem("svg", << Attr("xmlns"), Attr("width"), Attr("height"), Attr("class") >>,
                 << PathElem >>)
      [] file = "b/arrow-left.svg" -> Elem("svg", << >>, << RectElem >>)
      [] file = "FaHome" -> Elem("svg", << >>, << TextNode >>)
      [] file = "home.svg" ->
            Elem("svg", << Attr("viewBox"), Attr("fill-opacity"), Attr("fillOpacity") >>,
                 << StyleElem, PathElem >>)
      [] file = "md/fa.svg" -> Elem("svg", << >>, << >>)
      [] file = "md/home.svg" -> Elem("svg", << Attr("Width"), Attr("viewBox") >>, << CommentNode >>)

\* path.basename(file, path.extname(file))
basename(file) ==
    CASE file \in { "a/arrow-left.svg", "b/arrow-left.svg" } -> "arrow-left"
      [] file = "FaHome" -> "FaHome"
      [] file \in { "home.svg", "md/home.svg" } -> "home"
      [] file = "md/fa.svg" -> "fa"

\* camelcase(rawName, { pascalCase: true })
pascalCase(rawName) ==
    CASE rawName = "arrow-left" -> "ArrowLeft"
      [] rawName = "FaHome" -> "FaHome"
      [] rawName = "home" -> "Home"
      [] rawName = "fa" -> "Fa"

\* icon.formatter ? icon.formatter(pascalName) : pascalName, without the fallback
ResolveNameNoFallback(icon, file) ==
    IF icon.formatter # "none"
    THEN formatter(icon.formatter, pascalCase(basename(file)))
    ELSE pascalCase(basename(file))

\* (icon.formatter && icon.formatter(pascalName)) || pascalName
ResolveName(icon, file) ==
    LET pascalName == pascalCase(basename(file))
        formatted == IF icon.formatter # "none"
                     THEN formatter(icon.formatter, pascalName) ELSE ""
    IN  IF formatted # "" THEN formatted ELSE pascalName

\* getIconFiles(icon): glob(icon.files), when the files of `tree` exist
getIconFiles(icon, tree) == SelectSeq(Candidates(icon.files), LAMBDA f : f \in tree)

-----------------------------------------------------------------------------
(* The generated text. *)

generateIconRow(v, formattedName, data, type) ==
    LET exports == IF v = "root" THEN << formattedName >>
                   ELSE << "Data" \o formattedName, formattedName >>
    IN  IF type = "dts"
        THEN [kind |-> "row", type |-> type, name |-> formattedName, exports |-> exports]
        ELSE [kind |-> "row", type |-> type, name |-> formattedName, exports |-> exports,
              data |-> data]

generateIconsEntry(iconId, type) == [kind |-> "entry", from |-> iconId]

Header(text) == [kind |-> "header", text |-> text]

Ids(ics) == [i \in 1..Len(ics) |-> ics[i].id]

-----------------------------------------------------------------------------
(* Calls that return a promise. *)

NoOp == [op |-> "none"]
NoData == [kind |-> "none"]
\* the process has no exit status yet
Running == << >>

Call(fn, tag, op, path, data, onError, awaits) ==
    [fn |-> fn, tag |-> tag, op |-> op, path |-> path, data |-> data,
     onError |-> onError, awaits |-> awaits]

\* const write = (filePath, str) => writeFile(...).catch(ignore)
write(v, tag, filePath, str) ==
    Call("dirInit", tag, "writeFile", resolve(DIST(v), filePath), str, "ignore", TRUE)

mkdir(v, tag, path) == Call("dirInit", tag, "mkdir", path, NoData, "ignore", TRUE)

initFiles == << "index.d.ts", "index.mjs", "all.mjs", "all.d.ts" >>

\* the three write(...) calls and the mkdir of one icon set
IconInit(v, icon) ==
    << mkdir(v, "mkdir(icon.id)", resolve(DIST(v), icon.id)),
       write(v, "index.js", icon.id \o "/index.js", Header("js")),
       write(v, "index.mjs", icon.id \o "/index.mjs", Header("mjs")),
       write(v, "index.d.ts", icon.id \o "/index.d.ts", Header("dts")) >>

RECURSIVE Flatten(_)
Flatten(ss) == IF ss = << >> THEN << >> ELSE Head(ss) \o Flatten(Tail(ss))

\* the writeFile of .gitignore, which root's dirInit calls without await or catch
GitignoreCall(v, ics) ==
    Call("dirInit", ".gitignore", "writeFile", resolve(DIST(v), ".gitignore"),
         [kind |-> "gitignore", files |-> initFiles, ids |-> Ids(ics)], "none", FALSE)

dirInit(v, ics) ==
    << mkdir(v, "mkdir(DIST)", DIST(v)) >>
    \o (IF v = "root"
        THEN << mkdir(v, "mkdir(LIB)", LIB(v)), GitignoreCall(v, ics) >>
        ELSE << >>)
    \o Flatten([i \in 1..Len(ics) |-> IconInit(v, ics[i])])
    \o [i \in 1..Len(initFiles) |-> write(v, initFiles[i], initFiles[i], Header("auto"))]

writeLicense(v, ics) ==
    << Call("writeLicense", "copyFile", "copyFile", "LICENSE",
            [kind |-> "copy", from |-> "LICENSE_HEADER"], "none", TRUE),
       Call("writeLicense", "appendFile", "appendFile", "LICENSE",
            [kind |-> "iconLicenses", ids |-> Ids(ics)], "none", TRUE) >>

\* root writes the manifest under LIB, pkg under DIST
ManifestDir(v) == IF v = "root" THEN LIB(v) ELSE DIST(v)

writeIconsManifest(v, ics) ==
    << Call("writeIconsManifest", "iconsManifest.mjs", "writeFile",
            resolve(ManifestDir(v), "iconsManifest.mjs"),
            [kind |-> "manifest", type |-> "module", ids |-> Ids(ics)], "none", TRUE),
       Call("writeIconsManifest", "iconsManifest.js", "writeFile",
            resolve(ManifestDir(v), "iconsManifest.js"),
            [kind |-> "manifest", type |-> "common", ids |-> Ids(ics)], "none", TRUE),
       Call("writeIconsManifest", "iconsManifest.d.ts", "copyFile",
            resolve(ManifestDir(v), "iconsManifest.d.ts"),
            [kind |-> "copy", from |-> "src/iconsManifest.d.ts"], "none", TRUE) >>

\* only pkg's main calls writeIndexFile
writeIndexFile(v, ics) ==
    IF v = "root" THEN << >>
    ELSE LET append(tag, file, kind) ==
                Call("writeIndexFile", tag, "appendFile", resolve(DIST(v), file),
                     [kind |-> kind], "none", TRUE)
         IN  << append("manifestExport.mjs", "index.mjs", "manifestExport"),
                append("manifestExport.d.ts", "index.d.ts", "manifestExport"),
                append("imports.mjs", "index.mjs", "imports"),
                append("imports.d.ts", "index.d.ts", "imports") >>

\* the calls main makes before its loop over the icon sets, in order
Prelude(v, ics) ==
    dirInit(v, ics) \o writeLicense(v, ics) \o writeIconsManifest(v, ics)
    \o writeIndexFile(v, ics)

-----------------------------------------------------------------------------
(* The file system. *)

Put(f, path, content) ==
    [q \in (DOMAIN f) \cup { path } |-> IF q = path THEN content ELSE f[q]]

Content(f, path) == IF path \in DOMAIN f THEN f[path] ELSE << >>

\* what a call can settle with: mkdir of an existing directory fails with EEXIST,
\* any call that touches the disk may fail, convertIconData does no I/O
Outcomes(call) ==
    CASE call.op = "mkdir" -> IF call.path \in dirs THEN { "EEXIST" } ELSE { "ok", "EACCES" }
      [] call.op = "convert" -> { "ok" }
      [] OTHER -> { "ok", "EIO" }

DirsAfter(call, res) ==
    IF res = "ok" /\ call.op = "mkdir" THEN dirs \cup { call.path } ELSE dirs

\* appendFile putting the new text first
FsAfterPrepend(call, res) ==
    IF res # "ok" THEN fs
    ELSE CASE call.op \in { "writeFile", "copyFile" } -> Put(fs, call.path, << call.data >>)
           [] call.op = "appendFile" ->
                Put(fs, call.path, << call.data >> \o Content(fs, call.path))
           [] OTHER -> fs

\* writeFile that leaves an existing file alone (flag "wx", its EEXIST ignored)
FsAfterExclusive(call, res) ==
    IF res # "ok" THEN fs
    ELSE CASE call.op = "writeFile" ->
                IF call.path \in DOMAIN fs THEN fs ELSE Put(fs, call.path, << call.data >>)
           [] call.op = "copyFile" -> Put(fs, call.path, << call.data >>)
           [] call.op = "appendFile" ->
                Put(fs, call.path, Append(Content(fs, call.path), call.data))
           [] OTHER -> fs

\* writeFile and copyFile replace the content, appendFile adds to it
FsAfter(call, res) ==
    IF res # "ok" THEN fs
    ELSE CASE call.op \in { "writeFile", "copyFile" } -> Put(fs, call.path, << call.data >>)
           [] call.op = "appendFile" ->
                Put(fs, call.path, Append(Content(fs, call.path), call.data))
           [] OTHER -> fs

\* a handler that rethrows everything
ignoreNothing(code) == FALSE

\* const ignore = err => { if (err.code === "EEXIST") return; throw err; }
ignore(code) == code = "EEXIST"

\* the promise main awaits is rejected
Thrown(call, res) == res # "ok" /\ ~(call.onError = "ignore" /\ ignore(res))

Error(call, res) == [tag |-> call.tag, op |-> call.op, path |-> call.path, res |-> res]

-----------------------------------------------------------------------------
(* main *)

Prog == Prelude(variant, icons)

Pos(k, i, j) == [k |-> k, icon |-> i, file |-> j]

RECURSIVE SkipDetached(_, _)
SkipDetached(prog, k) ==
    IF k <= Len(prog) /\ ~prog[k].awaits THEN SkipDetached(prog, k + 1) ELSE k

Target(call, pos, det) == [call |-> call, at |-> pos, detach |-> det]

Finished == Target(NoOp, Pos(0, Len(icons), 0), {})

IconCall(tag, op, path, data) ==
    Call("writeIconModule", tag, op, path, data, "none", TRUE)

\* for (const icon of icons) await writeIconModule(icon): its first await is glob
EnterIcon(i) ==
    IF i <= Len(icons)
    THEN Target(IconCall("glob", "glob", icons[i].files, NoData), Pos(0, i, 0), {})
    ELSE Finished

\* for (const file of files): the first await of the body is readFile
EnterFile(fl, i, j) ==
    IF j <= Len(fl)
    THEN Target(IconCall("readFile", "readFile", fl[j], NoData), Pos(0, i, j), {})
    ELSE EnterIcon(i + 1)

\* what follows call k of the prelude
AfterPrelude(k) ==
    LET k2 == SkipDetached(Prog, k + 1)
        det == { Prog[m] : m \in (k + 1)..(k2 - 1) }
    IN  IF k2 <= Len(Prog) THEN Target(Prog[k2], Pos(k2, 0, 0), det)
        ELSE [EnterIcon(1) EXCEPT !.detach = det]

\* main goes on to its next await, or prints "done" and returns
Proceed(next) ==
    /\ awaited' = next.call
    /\ at' = next.at
    /\ detached' = detached \cup next.detach
    /\ pc' = IF next.call = NoOp THEN "end" ELSE next.call.fn
    /\ stdout' = IF next.call = NoOp THEN Append(stdout, "done") ELSE stdout
    /\ stderr' = stderr
    /\ late' = (late \/ (failed # {} /\ (next.call # NoOp \/ next.detach # {})))

\* catch (e) { console.error(e); }
Catch(res) ==
    /\ awaited' = NoOp
    /\ at' = at
    /\ detached' = detached
    /\ pc' = "end"
    /\ stdout' = stdout
    /\ stderr' = Append(stderr, res)
    /\ late' = late

\* the awaited call settles with res: its effect on the disk, and the error raised
Settle(res) ==
    /\ dirs' = DirsAfter(awaited, res)
    /\ fs' = FsAfter(awaited, res)
    /\ raised' = IF res = "ok" THEN raised ELSE raised \cup { Error(awaited, res) }
    /\ failed' = IF Thrown(awaited, res) THEN failed \cup { Error(awaited, res) } ELSE failed

Suspended(fn) == exitCode = Running /\ awaited # NoOp /\ awaited.fn = fn

PreludeStep ==
    /\ \E res \in Outcomes(awaited) :
          /\ Settle(res)
          /\ IF Thrown(awaited, res) THEN Catch(res) ELSE Proceed(AfterPrelude(at.k))
    /\ UNCHANGED << variant, icons, srcTree, files, exists, svgStr, iconData, exitCode,
                    run, snap >>

DirInit == Suspended("dirInit") /\ PreludeStep
WriteLicense == Suspended("writeLicense") /\ PreludeStep
WriteIconsManifest == Suspended("writeIconsManifest") /\ PreludeStep
WriteIndexFile == Suspended("writeIndexFile") /\ PreludeStep

Icon == icons[at.icon]
File == files[at.file]

\* const files = await getIconFiles(icon); const exists = new Set();
\* then the append to all.mjs is issued
GetIconFiles ==
    /\ Suspended("writeIconModule") /\ awaited.tag = "glob"
    /\ \E res \in Outcomes(awaited) :
          /\ Settle(res)
          /\ IF Thrown(awaited, res)
             THEN Catch(res) /\ UNCHANGED << files, exists, srcTree >>
             ELSE /\ \E tree \in SourceTrees(Icon.files) :
                        /\ srcTree[Icon.files] \in { Unknown, tree }
                        /\ srcTree' = [srcTree EXCEPT ![Icon.files] = tree]
                        /\ files' = getIconFiles(Icon, tree)
                  /\ exists' = {}
                  /\ Proceed(Target(IconCall("entryModule", "appendFile",
                                             resolve(DIST(variant), "all.mjs"),
                                             generateIconsEntry(Icon.id, "module")),
                                    at, {}))
    /\ UNCHANGED << variant, icons, svgStr, iconData, exitCode, run, snap >>

\* the appends to all.mjs and all.d.ts; after the second the loop over files starts
AppendEntry ==
    /\ Suspended("writeIconModule") /\ awaited.tag \in { "entryModule", "entryDts" }
    /\ \E res \in Outcomes(awaited) :
          /\ Settle(res)
          /\ IF Thrown(awaited, res) THEN Catch(res)
             ELSE IF awaited.tag = "entryModule"
             THEN Proceed(Target(IconCall("entryDts", "appendFile",
                                          resolve(DIST(variant), "all.d.ts"),
                                          generateIconsEntry(Icon.id, "dts")),
                                 at, {}))
             ELSE Proceed(EnterFile(files, at.icon, 1))
    /\ UNCHANGED << variant, icons, srcTree, files, exists, svgStr, iconData, exitCode,
                    run, snap >>

\* const svgStr = await promisify(fs.readFile)(file, "utf8");
ReadFile ==
    /\ Suspended("writeIconModule") /\ awaited.tag = "readFile"
    /\ \E res \in Outcomes(awaited) :
          /\ Settle(res)
          /\ IF Thrown(awaited, res)
             THEN Catch(res) /\ svgStr' = svgStr
             ELSE /\ svgStr' = SvgOf(File)
                  /\ Proceed(Target(IconCall("convertIconData", "convert", File, NoData),
                                    at, {}))
    /\ UNCHANGED << variant, icons, srcTree, files, exists, iconData, exitCode, run, snap >>

\* the paths of index.mjs and index.d.ts exchanged
RowFileSwapped(type) == CASE type = "module" -> "index.d.ts"
                          [] type = "common" -> "index.js"
                          [] type = "dts" -> "index.mjs"

RowFile(type) == CASE type = "module" -> "index.mjs"
                   [] type = "common" -> "index.js"
                   [] type = "dts" -> "index.d.ts"

RowCall(tag, type, name, data) ==
    IconCall(tag, "appendFile", resolve(DIST(variant), Icon.id \o "/" \o RowFile(type)),
             generateIconRow(variant, name, data, type))

\* no check for duplicates
SeenNever(name) == FALSE

\* exists.has(name)
Seen(name) == name \in exists

\* const iconData = await convertIconData(svgStr); the name is resolved; a name
\* already in `exists` makes the loop continue, a new one is added and the
\* append to index.mjs is issued
ConvertIconData ==
    /\ Suspended("writeIconModule") /\ awaited.tag = "convertIconData"
    /\ LET data == convertIconData(svgStr)
           name == ResolveName(Icon, File)
       IN  /\ Settle("ok")
           /\ iconData' = data
           /\ IF Seen(name)
              THEN /\ exists' = exists
                   /\ Proceed(EnterFile(files, at.icon, at.file + 1))
              ELSE /\ exists' = exists \cup { name }
                   /\ Proceed(Target(RowCall("modRes", "module", name, data), at, {}))
    /\ UNCHANGED << variant, icons, srcTree, files, svgStr, exitCode, run, snap >>

\* the appends of one icon's rows: index.mjs, then index.js, then index.d.ts,
\* then exists.add(file) and the next file
AppendRow ==
    /\ Suspended("writeIconModule") /\ awaited.tag \in { "modRes", "comRes", "dtsRes" }
    /\ \E res \in Outcomes(awaited) :
          /\ Settle(res)
          /\ IF Thrown(awaited, res) THEN Catch(res) /\ exists' = exists
             ELSE CASE awaited.tag = "modRes" ->
                         /\ exists' = exists
                         /\ Proceed(Target(RowCall("comRes", "common", awaited.data.name,
                                                   iconData), at, {}))
                    [] awaited.tag = "comRes" ->
                         /\ exists' = exists
                         /\ Proceed(Target(RowCall("dtsRes", "dts", awaited.data.name,
                                                   iconData), at, {}))
                    [] awaited.tag = "dtsRes" ->
                         /\ exists' = exists \cup { File }
                         /\ Proceed(EnterFile(files, at.icon, at.file + 1))
    /\ UNCHANGED << variant, icons, srcTree, files, svgStr, iconData, exitCode, run, snap >>

\* A call nothing awaits settles.  When it fails its promise is rejected with no
\* handler: the runtime prints a warning and goes on, or (the default of newer
\* runtimes) ends the process with status 1; the call main is suspended on has
\* then reached the disk or not.
DetachedSettles ==
    /\ exitCode = Running
    /\ \E call \in detached, res \in { "ok", "EIO" } :
          IF res = "ok"
          THEN /\ fs' = FsAfter(call, res)
               /\ detached' = detached \ { call }
               /\ UNCHANGED << dirs, raised, failed, stderr, exitCode, awaited, pc >>
          ELSE /\ raised' = raised \cup { Error(call, res) }
               /\ failed' = failed \cup { Error(call, res) }
               /\ stderr' = Append(stderr, "UnhandledPromiseRejection")
               /\ \/ /\ detached' = detached \ { call }
                     /\ UNCHANGED << dirs, fs, exitCode, awaited, pc >>
                  \/ /\ detached' = {}
                     /\ exitCode' = << 1 >>
                     /\ awaited' = NoOp
                     /\ pc' = "end"
                     /\ \/ UNCHANGED << dirs, fs >>
                        \/ /\ awaited # NoOp /\ "ok" \in Outcomes(awaited)
                           /\ dirs' = DirsAfter(awaited, "ok")
                           /\ fs' = FsAfter(awaited, "ok")
    /\ UNCHANGED << variant, icons, srcTree, at, files, exists, svgStr, iconData, stdout,
                    late, run, snap >>

\* main has returned and nothing is in flight: the process ends
Exit ==
    /\ exitCode = Running /\ pc = "end" /\ awaited = NoOp /\ detached = {}
    /\ exitCode' = << 0 >>
    /\ UNCHANGED << variant, icons, srcTree, dirs, fs, pc, at, awaited, detached, files,
                    exists, svgStr, iconData, stdout, stderr, raised, failed, late, run,
                    snap >>

NoSnap == << >>

Succeeded == exitCode = << 0 >> /\ stdout = << "done" >> /\ failed = {}

\* the build is run again over the output directory as the last run left it:
\* main() is called and dirInit runs up to its first await
Rerun ==
    /\ exitCode # Running /\ run < MaxRuns
    /\ run' = run + 1
    /\ snap' = IF Succeeded THEN fs ELSE NoSnap
    /\ pc' = "dirInit"
    /\ at' = Pos(1, 0, 0)
    /\ awaited' = Prog[1]
    /\ detached' = {}
    /\ files' = << >>
    /\ exists' = {}
    /\ svgStr' = Undefined
    /\ iconData' = Undefined
    /\ stdout' = << >>
    /\ stderr' = << >>
    /\ exitCode' = Running
    /\ raised' = {}
    /\ failed' = {}
    /\ late' = FALSE
    /\ UNCHANGED << variant, icons, srcTree, dirs, fs >>

Init ==
    /\ variant \in { "root", "pkg" }
    /\ icons \in IconConfigs
    /\ srcTree = [p \in Patterns |-> Unknown]
    /\ dirs = { "." }
    /\ fs = << >>
    /\ run = 1
    /\ snap = NoSnap
    /\ pc = "dirInit"
    /\ at = Pos(1, 0, 0)
    /\ awaited = Prog[1]
    /\ detached = {}
    /\ files = << >>
    /\ exists = {}
    /\ svgStr = Undefined
    /\ iconData = Undefined
    /\ stdout = << >>
    /\ stderr = << >>
    /\ exitCode = Running
    /\ raised = {}
    /\ failed = {}
    /\ late = FALSE

Next ==
    \/ DirInit
    \/ WriteLicense
    \/ WriteIconsManifest
    \/ WriteIndexFile
    \/ GetIconFiles
    \/ AppendEntry
    \/ ReadFile
    \/ ConvertIconData
    \/ AppendRow
    \/ DetachedSettles
    \/ Exit
    \/ Rerun

Spec == Init /\ [][Next]_vars

-----------------------------------------------------------------------------
(* convertIconData alone, over every document of the model. *)

InitConv ==
    /\ variant = "root"
    /\ icons = CHOOSE c \in IconConfigs : TRUE
    /\ srcTree = [p \in Patterns |-> Unknown]
    /\ dirs = { "." }
    /\ fs = << >>
    /\ run = 1
    /\ snap = NoSnap
    /\ pc = "writeIconModule"
    /\ at = Pos(0, 1, 1)
    /\ awaited = NoOp
    /\ detached = {}
    /\ files = << >>
    /\ exists = {}
    /\ svgStr \in SvgDocs
    /\ iconData = Undefined
    /\ stdout = << >>
    /\ stderr = << >>
    /\ exitCode = Running
    /\ raised = {}
    /\ failed = {}
    /\ late = FALSE

Convert ==
    /\ iconData = Undefined
    /\ iconData' = convertIconData(svgStr)
    /\ UNCHANGED << variant, icons, srcTree, dirs, fs, pc, at, awaited, detached, files,
                    exists, svgStr, stdout, stderr, exitCode, raised, failed, late, run,
                    snap >>

NextConv == Convert

SpecConv == InitConv /\ [][NextConv]_vars

-----------------------------------------------------------------------------
(* Properties of convertIconData, stated for SpecConv. *)

Min(a, b) == IF a <= b THEN a ELSE b

Keys(attr) == { attr[i].key : i \in 1..Len(attr) }

\* the children of a source element that are elements other than style
Kids(e) == SelectSeq(e.children, LAMBDA c : c.type = "tag" /\ c.name # "style")

OutKids(n) == IF "child" \in DOMAIN n THEN n.child ELSE << >>

\* every source element paired with the node made from it, the root first
RECURSIVE Pairs(_, _, _)
Pairs(e, n, isRoot) ==
    << [src |-> e, out |-> n, root |-> isRoot] >>
    \o Flatten([i \in 1..Min(Len(Kids(e)), Len(OutKids(n))) |->
                    Pairs(Kids(e)[i], OutKids(n)[i], FALSE)])

Converted == iconData # Undefined

AllPairs == IF Converted THEN Range(Pairs(svgStr, iconData, TRUE)) ELSE {}

SizeNames == { "xmlns", "width", "height" }

\* C4 as claimed: the root svg node's attr never contains xmlns, width, height or
\* class; every non-root element, whatever its tag, keeps every attribute it has
\* (width and height among them) except class.
C4_Original ==
    \A p \in AllPairs :
        IF p.root
        THEN Keys(p.out.attr) \cap (SizeNames \cup { "class" }) = {}
        ELSE /\ "class" \notin Keys(p.out.attr)
             /\ \A i \in 1..Len(p.src.attribs) :
                    p.src.attribs[i].name # "class"
                        => camelcase(p.src.attribs[i].name) \in Keys(p.out.attr)

\* C4 amended: what decides is the tag, not the position.  An element whose tag is
\* svg, root or nested, loses its attributes named class, xmlns, width and height;
\* any other element loses only class.  Every other attribute is kept under its
\* camel-cased name with its value (the last one, when two names camel-case alike).
C4_AttrByTag ==
    \A p \in AllPairs :
        LET dropped == IF p.src.name = "svg" THEN SizeNames \cup { "class" } ELSE { "class" }
            kept == { i \in 1..Len(p.src.attribs) : p.src.attribs[i].name \notin dropped }
            last(key) == CHOOSE i \in kept :
                            /\ camelcase(p.src.attribs[i].name) = key
                            /\ \A j \in kept : camelcase(p.src.attribs[j].name) = key => j <= i
        IN  /\ Keys(p.out.attr) = { camelcase(p.src.attribs[i].name) : i \in kept }
            /\ Cardinality(Keys(p.out.attr)) = Len(p.out.attr)
            /\ \A i \in 1..Len(p.out.attr) :
                    p.out.attr[i].value = p.src.attribs[last(p.out.attr[i].key)].value

\* a converted document whose root has size attributes and which holds a nested
\* svg with a width and, inside it, a rect with a width
C4_Witness ==
    /\ Converted
    /\ \E i \in 1..Len(svgStr.attribs) : svgStr.attribs[i].name = "width"
    /\ \E i \in 1..Len(svgStr.children) :
          /\ svgStr.children[i].name = "svg"
          /\ svgStr.children[i].children = << RectElem >>
          /\ iconData.child[1].tag = "svg"
          /\ "width" \notin Keys(iconData.child[1].attr)
          /\ "width" \in Keys(iconData.child[1].child[1].attr)

Tags(nodes) == [i \in 1..Len(nodes) |-> nodes[i].tag]
NamesOf(elems) == [i \in 1..Len(elems) |-> elems[i].name]

\* C5 as claimed: a node has a child field if and only if the source element has
\* at least one child that is an element other than style, and the field lists
\* those children in document order.
C5_Original ==
    \A p \in AllPairs :
        /\ ("child" \in DOMAIN p.out) <=> (Len(Kids(p.src)) > 0)
        /\ Tags(OutKids(p.out)) = NamesOf(Kids(p.src))

\* C5 amended: a node has a child field if and only if the source element has at
\* least one child node of any kind (element, style, text or comment); the field
\* lists the children that are elements other than style in document order, and
\* is the empty sequence when there is none.
C5_ChildIffAnyChild ==
    \A p \in AllPairs :
        /\ ("child" \in DOMAIN p.out) <=> (Len(p.src.children) > 0)
        /\ Tags(OutKids(p.out)) = NamesOf(Kids(p.src))

\* a converted document whose root holds only a text node and a style element
C5_Witness ==
    /\ Converted
    /\ svgStr.children = << TextNode, StyleElem >>
    /\ "child" \in DOMAIN iconData
    /\ iconData.child = << >>

-----------------------------------------------------------------------------
(* Properties of the build, stated for Spec. *)

IconPath(i, file) == resolve(DIST(variant), icons[i].id \o "/" \o file)
RootPath(file) == resolve(DIST(variant), file)

Rows(path) == SelectSeq(Content(fs, path), LAMBDA c : c.kind = "row")
N(path) == Len(Rows(path))
RowNames(path) == [k \in 1..N(path) |-> Rows(path)[k].name]

Entries(path) == SelectSeq(Content(fs, path), LAMBDA c : c.kind = "entry")
EntryIds(path) == [k \in 1..Len(Entries(path)) |-> Entries(path)[k].from]

OutputFiles == { "index.mjs", "index.js", "index.d.ts" }
IconIndexes == 1..Len(icons)

\* the files of icon set i in discovery order, and the names they resolve to
Discovered(i) == getIconFiles(icons[i], srcTree[icons[i].files])
DiscoveredNames(i) == [j \in 1..Len(Discovered(i)) |-> ResolveName(icons[i], Discovered(i)[j])]

IsPrefix(a, b) == Len(a) <= Len(b) /\ a = SubSeq(b, 1, Len(a))

RECURSIVE IsSubseq(_, _)
IsSubseq(a, b) ==
    IF a = << >> THEN TRUE
    ELSE IF b = << >> THEN FALSE
    ELSE IF Head(a) = Head(b) THEN IsSubseq(Tail(a), Tail(b))
    ELSE IsSubseq(a, Tail(b))

\* dirInit has returned in this run
DirInitDone == at.icon >= 1 \/ at.k > Len(dirInit(variant, icons))

InFlight == detached \cup (IF awaited = NoOp THEN {} ELSE { awaited })

\* C1: in each of an icon set's three output files every resolved name has at most
\* one row, and that row is built from the first discovered file that resolves to
\* the name; a later file with a name already seen appends nothing.
C1_OneRowPerName ==
    \A i \in IconIndexes, f \in OutputFiles :
        LET rows == Rows(IconPath(i, f))
            fl == Discovered(i)
        IN  /\ \A a, b \in 1..Len(rows) : rows[a].name = rows[b].name => a = b
            /\ \A a \in 1..Len(rows) :
                  /\ \E j \in 1..Len(fl) : DiscoveredNames(i)[j] = rows[a].name
                  /\ f # "index.d.ts" =>
                        LET first == CHOOSE j \in 1..Len(fl) :
                                        /\ DiscoveredNames(i)[j] = rows[a].name
                                        /\ \A k \in 1..(j - 1) :
                                               DiscoveredNames(i)[k] # rows[a].name
                        IN  rows[a].data = convertIconData(SvgOf(fl[first]))

\* a finished build in which two discovered files of one icon set resolved to one
\* name and the set's files hold one row
C1_Witness ==
    /\ Succeeded /\ stderr = << >>
    /\ \E i \in IconIndexes :
          /\ Len(Discovered(i)) = 2
          /\ DiscoveredNames(i)[1] = DiscoveredNames(i)[2]
          /\ \A f \in OutputFiles : N(IconPath(i, f)) = 1

\* C2 as claimed: never two calls in flight at once, and nothing that dirInit
\* started is still in flight once main has gone on to writeLicense.
C2_Sequential ==
    /\ Cardinality(InFlight) <= 1
    /\ pc # "dirInit" => \A c \in InFlight : c.fn # "dirInit"

\* C3 as claimed: once a call has failed with an error other than an ignored
\* EEXIST, nothing more is started, main has caught the error and printed it once,
\* "done" is not printed and the exit status is 0.
C3_AbortAndLog ==
    /\ failed # {} =>
          /\ ~late
          /\ awaited = NoOp /\ pc = "end"
          /\ stdout = << >>
          /\ Len(stderr) = 1 /\ \E e \in failed : stderr[1] = e.res
          /\ exitCode \in { Running, << 0 >> }
    /\ stdout = << "done" >> => failed = {}

\* C6 as claimed: at every point all.mjs and all.d.ts hold the same entries, one
\* per icon set started, in descriptor order; the rows are in discovery order;
\* an icon set has rows only after its entry and only after the sets before it
\* are finished.
C6_Original ==
    /\ \E n \in 0..Len(icons) :
          /\ EntryIds(RootPath("all.mjs")) = SubSeq(Ids(icons), 1, n)
          /\ EntryIds(RootPath("all.d.ts")) = SubSeq(Ids(icons), 1, n)
    /\ \A i \in IconIndexes, f \in OutputFiles :
          /\ IsSubseq(RowNames(IconPath(i, f)), DiscoveredNames(i))
          /\ N(IconPath(i, f)) > 0 => i <= Len(EntryIds(RootPath("all.d.ts")))

\* the row names of the three files of icon set i agree
Complete(i) ==
    /\ RowNames(IconPath(i, "index.mjs")) = RowNames(IconPath(i, "index.js"))
    /\ RowNames(IconPath(i, "index.js")) = RowNames(IconPath(i, "index.d.ts"))

\* C6 amended: once dirInit has returned, all.mjs holds in descriptor order one
\* entry per icon set whose append to all.mjs has completed, which is every set
\* started except possibly the current one; all.d.ts holds the same entries or
\* lacks only the last; the rows are in discovery order; an icon set has rows
\* only after both its entries, and only after the sets before it are finished.
C6_BarrelOrder ==
    DirInitDone =>
        LET m == EntryIds(RootPath("all.mjs"))
            d == EntryIds(RootPath("all.d.ts"))
        IN  /\ IsPrefix(m, Ids(icons)) /\ IsPrefix(d, m)
            /\ Len(m) <= Len(d) + 1
            /\ Len(m) <= at.icon /\ at.icon <= Len(m) + 1
            /\ \A i \in IconIndexes, f \in OutputFiles :
                  /\ IsSubseq(RowNames(IconPath(i, f)), DiscoveredNames(i))
                  /\ N(IconPath(i, f)) > 0 => i <= Len(d) /\ i <= at.icon
            /\ \A i \in IconIndexes :
                  (\E l \in IconIndexes : l > i /\ l <= Len(m)) => Complete(i)

\* the second icon set's entry is in all.mjs and not yet in all.d.ts, and the
\* first set has written two rows
C6_Witness ==
    /\ DirInitDone
    /\ awaited # NoOp /\ awaited.tag = "entryDts" /\ at.icon = 2
    /\ EntryIds(RootPath("all.mjs")) = Ids(icons)
    /\ EntryIds(RootPath("all.d.ts")) = << icons[1].id >>
    /\ N(IconPath(1, "index.d.ts")) = 2

\* C7: a mkdir that fails with EEXIST is ignored and the build goes on; a mkdir
\* that fails with anything else is rethrown and ends the build in main's catch;
\* a run in which nothing but EEXIST was raised ends with "done".
C7_ExistingDirsIgnored ==
    /\ \A e \in raised : e.op = "mkdir" => (e.res = "EEXIST" <=> e \notin failed)
    /\ \A e \in failed : e.op = "mkdir" =>
          pc = "end" /\ stdout = << >> /\ e.res \in Range(stderr)
    /\ (pc = "end" /\ \A e \in raised : e.res = "EEXIST") => stdout = << "done" >>

\* a second run over the output of a finished one: every mkdir raised EEXIST and
\* the run finished
C7_Witness ==
    /\ run = 2 /\ snap # NoSnap /\ Succeeded
    /\ \A i \in IconIndexes :
          \E e \in raised : e.op = "mkdir" /\ e.res = "EEXIST" /\ e.path = resolve(DIST(variant), icons[i].id)
    /\ \E e \in raised : e.tag = "mkdir(DIST)" /\ e.res = "EEXIST"

\* the name of the row being appended, and the file it is built from
Appending == awaited # NoOp /\ awaited.tag \in { "modRes", "comRes", "dtsRes" }
PascalName == pascalCase(basename(File))

\* C8 as claimed: with a formatter the emitted name is the formatter's result,
\* whatever it is; without one it is the pascal-cased base name.
C8_Original ==
    Appending =>
        awaited.data.name = IF Icon.formatter # "none"
                            THEN formatter(Icon.formatter, PascalName)
                            ELSE PascalName

\* C8 amended: with a formatter the emitted name is the formatter's result when
\* that is not the empty string; when the formatter returns the empty string, or
\* the icon set has no formatter, it is the pascal-cased base name.
C8_FormatterOrPascal ==
    Appending =>
        awaited.data.name =
            IF Icon.formatter # "none" /\ formatter(Icon.formatter, PascalName) # ""
            THEN formatter(Icon.formatter, PascalName)
            ELSE PascalName

\* a row is being appended for a file whose formatter returned the empty string
C8_Witness ==
    /\ Appending
    /\ Icon.formatter # "none"
    /\ formatter(Icon.formatter, PascalName) = ""
    /\ awaited.data.name = PascalName

\* C9: a build that prints "done" right after a build that printed "done" leaves
\* every generated file with the content the first one left.
C9_SecondRunSameFiles ==
    (Succeeded /\ snap # NoSnap) => fs = snap

\* the second of two finished builds, with rows in an icon set's files
C9_Witness ==
    /\ Succeeded /\ snap # NoSnap /\ run = 2
    /\ \E i \in IconIndexes : N(IconPath(i, "index.mjs")) = 2
    /\ variant = "pkg" => Len(Content(fs, RootPath("index.mjs"))) = 3

\* the row counts and names of the three files of icon set i
InStep(i) ==
    LET mjs == RowNames(IconPath(i, "index.mjs"))
        js == RowNames(IconPath(i, "index.js"))
        dts == RowNames(IconPath(i, "index.d.ts"))
    IN  /\ Len(mjs) >= Len(js) /\ Len(js) >= Len(dts)
        /\ Len(mjs) <= Len(dts) + 1
        /\ IsPrefix(js, mjs) /\ IsPrefix(dts, js)
        /\ stdout = << "done" >> => (mjs = js /\ js = dts)

\* C10 as claimed: in every reachable state of a build.
C10_Original == \A i \in IconIndexes : InStep(i)

\* C10 amended: in every state of a build that started on an empty output
\* directory, and in every state of a later build once its dirInit has returned
\* (until then files that are already reset stand beside files that still hold
\* the previous build's rows).
C10_RowsInStep ==
    (run = 1 \/ DirInitDone) => \A i \in IconIndexes : InStep(i)

\* a rebuild that a failed append has aborted between index.mjs and index.d.ts
C10_Witness ==
    /\ run = 2 /\ DirInitDone
    /\ pc = "end" /\ failed # {}
    /\ \E i \in IconIndexes :
          /\ N(IconPath(i, "index.mjs")) = 2
          /\ N(IconPath(i, "index.d.ts")) = 1

====
